---- MODULE Spec2Model ----
(***************************************************************************)
(* A model of sphinxcontrib.paverutils.run_script and its helper           *)
(* adjust_line_widths (src/sphinxcontrib/paverutils.py).                   *)
(*                                                                         *)
(* A Python str is a sequence of one-character strings.  The stdlib        *)
(* functions the code calls (str.strip, str.splitlines, str.expandtabs,    *)
(* textwrap.fill) are operators that compute what CPython 3 computes on    *)
(* the characters the model uses.                                          *)
(***************************************************************************)
EXTENDS Integers, Sequences, FiniteSets, TLC

(***************************************************************************)
(* Characters                                                              *)
(***************************************************************************)
TAB == "\t"
NL == "\n"
SP == " "
BSL == "\\"
HY == "-"

\* string.whitespace restricted to the characters of the model
Whitespace == {SP, TAB, NL}
\* characters that are neither whitespace nor matched by \w
Punct == {HY, BSL, "$", ":", "."}
Digits == {"3"}

IsSpace(c) == c \in Whitespace
\* \w of the re module
IsWord(c) == c \notin Whitespace \cup Punct
\* [^\d\W] of textwrap: a letter
IsLetter(c) == IsWord(c) /\ c \notin Digits
\* [\w!"'&.,?] of textwrap
IsWordPunct(c) == IsWord(c) \/ c = "."

Min(a, b) == IF a < b THEN a ELSE b
Max(a, b) == IF a > b THEN a ELSE b

\* s[:n] and s[n:] for n >= 0
Take(s, n) == SubSeq(s, 1, Min(n, Len(s)))
Drop(s, n) == SubSeq(s, Min(n, Len(s)) + 1, Len(s))

\* n copies of the character c
Rep(c, n) == [i \in 1..n |-> c]

RECURSIVE Concat(_)
\* ''.join(parts)
Concat(parts) ==
    IF parts = <<>> THEN <<>> ELSE Head(parts) \o Concat(Tail(parts))

RECURSIVE Join(_, _)
\* sep.join(parts)
Join(sep, parts) ==
    IF parts = <<>> THEN <<>>
    ELSE IF Len(parts) = 1 THEN parts[1]
    ELSE parts[1] \o sep \o Join(sep, Tail(parts))

\* not l.strip(): empty or made of whitespace only
IsBlank(l) == \A i \in 1..Len(l) : IsSpace(l[i])

\* number of leading whitespace characters: len(l) - len(l.lstrip())
LeadingSpace(l) ==
    IF IsBlank(l) THEN Len(l)
    ELSE (CHOOSE i \in 1..Len(l) :
              ~IsSpace(l[i]) /\ \A j \in 1..(i - 1) : IsSpace(l[j])) - 1

\* number of trailing whitespace characters
TrailingSpace(l) ==
    IF IsBlank(l) THEN Len(l)
    ELSE Len(l) - (CHOOSE i \in 1..Len(l) :
              ~IsSpace(l[i]) /\ \A j \in (i + 1)..Len(l) : IsSpace(l[j]))

\* l.rstrip()
RStrip(l) == Take(l, Len(l) - TrailingSpace(l))

RECURSIVE SplitLinesFrom(_, _)
\* str.splitlines(): cur is the line being collected
SplitLinesFrom(s, cur) ==
    IF s = <<>> THEN (IF cur = <<>> THEN <<>> ELSE <<cur>>)
    ELSE IF Head(s) = NL THEN <<cur>> \o SplitLinesFrom(Tail(s), <<>>)
    ELSE SplitLinesFrom(Tail(s), Append(cur, Head(s)))

SplitLines(s) == SplitLinesFrom(s, <<>>)

(***************************************************************************)
(* textwrap.TextWrapper, as textwrap.fill(text, width=..., ...) uses it:   *)
(* expand_tabs, replace_whitespace and drop_whitespace are on, tabsize 8.  *)
(***************************************************************************)
TabSize == 8

RECURSIVE ExpandTabsFrom(_, _)
\* str.expandtabs(8): col is the current column
ExpandTabsFrom(s, col) ==
    IF s = <<>> THEN <<>>
    ELSE IF Head(s) = TAB
        THEN Rep(SP, TabSize - (col % TabSize))
                 \o ExpandTabsFrom(Tail(s), 0)
    ELSE IF Head(s) = NL
        THEN <<NL>> \o ExpandTabsFrom(Tail(s), 0)
    ELSE <<Head(s)>> \o ExpandTabsFrom(Tail(s), col + 1)

\* TextWrapper._munge_whitespace
MungeWhitespace(text) ==
    LET e == ExpandTabsFrom(text, 0)
    IN [i \in 1..Len(e) |-> IF IsSpace(e[i]) THEN SP ELSE e[i]]

\* length of the run of characters satisfying "in set ws" that starts at p
RECURSIVE RunLen(_, _, _)
RunLen(s, p, isWs) ==
    IF p > Len(s) \/ IsSpace(s[p]) # isWs THEN 0
    ELSE 1 + RunLen(s, p + 1, isWs)

\* length of the run of hyphens that starts at p
RECURSIVE HyphenRun(_, _)
HyphenRun(s, p) ==
    IF p > Len(s) \/ s[p] # HY THEN 0 ELSE 1 + HyphenRun(s, p + 1)

At(s, i) == IF i >= 1 /\ i <= Len(s) THEN s[i] ELSE NL
LetterAt(s, i) == i >= 1 /\ i <= Len(s) /\ IsLetter(s[i])
WordAt(s, i) == i >= 1 /\ i <= Len(s) /\ IsWord(s[i])
WordPunctAt(s, i) == i >= 1 /\ i <= Len(s) /\ IsWordPunct(s[i])

\* -{2,}(?=\w) matches at p: its length, or 0
EmDashAt(s, p) ==
    LET h == HyphenRun(s, p)
    IN IF h >= 2 /\ WordAt(s, p + h) THEN h ELSE 0

\* the hyphen at position q ends a hyphenated-word chunk:
\*   -(?: (?<=lt{2}-) | (?<=lt-lt-)) (?= lt -? lt)
HyphenBreakAt(s, q) ==
    /\ q <= Len(s) /\ s[q] = HY
    /\ \/ LetterAt(s, q - 1) /\ LetterAt(s, q - 2)
       \/ LetterAt(s, q - 1) /\ At(s, q - 2) = HY /\ LetterAt(s, q - 3)
    /\ LetterAt(s, q + 1)
    /\ \/ LetterAt(s, q + 2)
       \/ At(s, q + 2) = HY /\ LetterAt(s, q + 3)

RECURSIVE WordChunkLen(_, _, _)
\* the third alternative of wordsep_re at p: nws+? lazily extended to k
\* characters, then the first terminator that matches
WordChunkLen(s, p, k) ==
    IF HyphenBreakAt(s, p + k) THEN k + 1
    ELSE IF p + k > Len(s) \/ IsSpace(s[p + k]) THEN k
    ELSE IF WordPunctAt(s, p + k - 1) /\ EmDashAt(s, p + k) > 0 THEN k
    ELSE WordChunkLen(s, p, k + 1)

\* length of the wordsep_re match that starts at p
SepChunkLen(s, p) ==
    IF IsSpace(s[p]) THEN RunLen(s, p, TRUE)
    ELSE IF WordPunctAt(s, p - 1) /\ EmDashAt(s, p) > 0 THEN EmDashAt(s, p)
    ELSE WordChunkLen(s, p, 1)

\* length of the wordsep_simple_re piece that starts at p
SimpleChunkLen(s, p) == RunLen(s, p, IsSpace(s[p]))

RECURSIVE SplitChunks(_, _, _)
\* TextWrapper._split
SplitChunks(s, p, break_on_hyphens) ==
    IF p > Len(s) THEN <<>>
    ELSE LET n == IF break_on_hyphens THEN SepChunkLen(s, p)
                  ELSE SimpleChunkLen(s, p)
         IN <<SubSeq(s, p, p + n - 1)>>
                \o SplitChunks(s, p + n, break_on_hyphens)

RECURSIVE TakeFitting(_, _, _)
\* the inner loop of _wrap_chunks: how many leading chunks fit in width
TakeFitting(chunks, cur_len, width) ==
    IF chunks = <<>> \/ cur_len + Len(Head(chunks)) > width THEN 0
    ELSE 1 + TakeFitting(Tail(chunks), cur_len + Len(Head(chunks)), width)

RECURSIVE SumLen(_)
SumLen(parts) ==
    IF parts = <<>> THEN 0 ELSE Len(Head(parts)) + SumLen(Tail(parts))

\* chunk.rfind('-', 0, n) + 1: the 1-based position of the last hyphen among
\* the first n characters, 0 when there is none
RFindHyphen(chunk, n) ==
    LET S == {i \in 1..Min(n, Len(chunk)) : chunk[i] = HY}
    IN IF S = {} THEN 0 ELSE CHOOSE i \in S : \A j \in S : j <= i

\* TextWrapper._handle_long_word with break_long_words: where to cut chunk
LongWordCut(chunk, space_left, break_on_hyphens) ==
    LET h == RFindHyphen(chunk, space_left)
    IN IF /\ break_on_hyphens
          /\ Len(chunk) > space_left
          /\ h > 1
          /\ \E i \in 1..(h - 1) : chunk[i] # HY
       THEN h
       ELSE space_left

\* _wrap_chunks: the static string that prefixes the next line
LineIndent(lines, subsequent_indent) ==
    IF lines # <<>> THEN subsequent_indent ELSE <<>>

\* _wrap_chunks: a whitespace chunk that starts a line is dropped, unless
\* no line has been produced yet
DropLeadingBlank(chunks, lines) ==
    IF IsBlank(Head(chunks)) /\ lines # <<>> THEN Tail(chunks) ELSE chunks

\* _handle_long_word: space_left
SpaceLeft(width, cur_len) == IF width < 1 THEN 1 ELSE width - cur_len

\* the current line and the remaining chunks after _handle_long_word, which
\* runs when the next chunk is longer than width
HandleLongWord(cur_line, chunks, width, break_long_words, break_on_hyphens) ==
    IF chunks = <<>> \/ Len(Head(chunks)) <= width THEN <<cur_line, chunks>>
    ELSE IF break_long_words
        THEN LET cut == LongWordCut(Head(chunks),
                                    SpaceLeft(width, SumLen(cur_line)),
                                    break_on_hyphens)
             IN << Append(cur_line, Take(Head(chunks), cut)),
                   <<Drop(Head(chunks), cut)>> \o Tail(chunks) >>
    ELSE IF cur_line = <<>> THEN << <<Head(chunks)>>, Tail(chunks) >>
    ELSE <<cur_line, chunks>>

\* the current line and the remaining chunks after the inner loop and
\* _handle_long_word
FillLine(chunks, width, break_long_words, break_on_hyphens) ==
    HandleLongWord(SubSeq(chunks, 1, TakeFitting(chunks, 0, width)),
                   SubSeq(chunks, TakeFitting(chunks, 0, width) + 1,
                          Len(chunks)),
                   width, break_long_words, break_on_hyphens)

\* a whitespace chunk that ends the line is dropped
DropTrailingBlank(cur_line) ==
    IF cur_line # <<>> /\ IsBlank(cur_line[Len(cur_line)])
    THEN SubSeq(cur_line, 1, Len(cur_line) - 1) ELSE cur_line

\* if cur_line: lines.append(indent + ''.join(cur_line))
EmitLine(lines, indent, cur_line) ==
    IF cur_line # <<>> THEN Append(lines, indent \o Concat(cur_line))
    ELSE lines

RECURSIVE WrapChunks(_, _, _, _, _, _)
\* one pass of the outer loop of _wrap_chunks, given the line it filled
WrapEmit(filled, lines, W, subsequent_indent, break_long_words, break_on_hyphens) ==
    WrapChunks(filled[2],
               EmitLine(lines, LineIndent(lines, subsequent_indent),
                        DropTrailingBlank(filled[1])),
               W, subsequent_indent, break_long_words, break_on_hyphens)

\* TextWrapper._wrap_chunks (max_lines is None); chunks in reading order
WrapChunks(chunks, lines, W, subsequent_indent, break_long_words, break_on_hyphens) ==
    IF chunks = <<>> THEN lines
    ELSE WrapEmit(
             FillLine(DropLeadingBlank(chunks, lines),
                      W - Len(LineIndent(lines, subsequent_indent)),
                      break_long_words, break_on_hyphens),
             lines, W, subsequent_indent, break_long_words,
             break_on_hyphens)

\* textwrap.wrap(text, width=W, subsequent_indent=..., break_long_words=...,
\* break_on_hyphens=...), for W > 0
Wrap(text, W, subsequent_indent, break_long_words, break_on_hyphens) ==
    WrapChunks(SplitChunks(MungeWhitespace(text), 1, break_on_hyphens),
               <<>>, W, subsequent_indent, break_long_words,
               break_on_hyphens)

\* textwrap.fill(...).splitlines()
FillSplit(text, W, subsequent_indent, break_long_words, break_on_hyphens) ==
    SplitLines(Join(<<NL>>, Wrap(text, W, subsequent_indent,
                                 break_long_words, break_on_hyphens)))

(***************************************************************************)
(* adjust_line_widths                                                      *)
(***************************************************************************)
BreakModes == {"break", "continue", "wrap", "wrap-no-breaks", "fill",
               "truncate"}

RECURSIVE HardBreakWide(_, _)
\* HardBreak cutting one character too late
HardBreakWide(l, W) ==
    IF l = <<>> THEN <<>>
    ELSE <<Take(l, W + 1)>> \o HardBreakWide(Drop(l, W + 1), W)

RECURSIVE HardBreak(_, _)
\* the loop of the 'break' mode, for W > 0
HardBreak(l, W) ==
    IF l = <<>> THEN <<>>
    ELSE <<Take(l, W)>> \o HardBreak(Drop(l, W), W)

RECURSIVE ContinueBreakAll(_, _)
\* ContinueBreak marking the last chunk too
ContinueBreakAll(l, W) ==
    IF l = <<>> THEN <<>>
    ELSE <<Append(Take(l, W), BSL)>> \o ContinueBreakAll(Drop(l, W), W)

RECURSIVE ContinueBreak(_, _)
\* the loop of the 'continue' mode, for W > 0
ContinueBreak(l, W) ==
    IF l = <<>> THEN <<>>
    ELSE LET part == Take(l, W)
             rest == Drop(l, W)
         IN <<IF rest # <<>> THEN Append(part, BSL) ELSE part>>
                \o ContinueBreak(rest, W)

Returned(ls) == [kind |-> "ok", lines |-> ls, arg |-> ""]
\* ValueError(arg)
Raised(a) == [kind |-> "ValueError", lines |-> <<>>, arg |-> a]
\* the while loop of 'break' and 'continue' never ends when W = 0:
\* l[:0] is empty and l[0:] is l
Diverged == [kind |-> "diverge", lines |-> <<>>, arg |-> ""]

\* textwrap raises ValueError("invalid width ...") for a width <= 0
TextwrapLine(l, W, subsequent_indent, break_long_words, break_on_hyphens) ==
    IF W <= 0 THEN Raised("invalid width")
    ELSE Returned(FillSplit(l, W, subsequent_indent, break_long_words,
                            break_on_hyphens))

\* one pass of the for loop of adjust_line_widths: what line l contributes
AdjustLine(l, W, mode) ==
    IF IsBlank(l) \/ Len(l) <= W THEN Returned(<<l>>)
    ELSE IF mode = "break"
        THEN IF W = 0 THEN Diverged ELSE Returned(HardBreak(l, W))
    ELSE IF mode = "wrap"
        THEN TextwrapLine(l, W, <<>>, TRUE, TRUE)
    ELSE IF mode = "wrap-no-breaks"
        THEN TextwrapLine(l, W, <<>>, FALSE, FALSE)
    ELSE IF mode = "fill"
        THEN TextwrapLine(l, W, Take(l, LeadingSpace(l)), TRUE, TRUE)
    ELSE IF mode = "continue"
        THEN IF W = 0 THEN Diverged ELSE Returned(ContinueBreak(l, W))
    ELSE IF mode = "truncate"
        THEN Returned(<<Take(l, W)>>)
    ELSE Raised(mode)

RECURSIVE AdjustFrom(_, _, _, _)
AdjustFrom(lines, broken_lines, W, mode) ==
    IF lines = <<>> THEN Returned(broken_lines)
    ELSE LET r == AdjustLine(Head(lines), W, mode)
         IN IF r.kind # "ok" THEN r
            ELSE AdjustFrom(Tail(lines), broken_lines \o r.lines, W, mode)

adjust_line_widths(lines, break_lines_at, line_break_mode) ==
    AdjustFrom(lines, <<>>, break_lines_at, line_break_mode)

(***************************************************************************)
(* run_script                                                              *)
(***************************************************************************)
\* break_lines_at ranges over 0..MaxWidth
MaxWidth == 3
\* line_cleanups holds at most MaxCleanups transforms
MaxCleanups == 2
\* the width the command line is broken at when break_lines_at is 0
DefaultWidth == 64
\* sys.version_info[0] of the interpreter that runs the module
PyMajor == 3

Python == <<"p", "y", "t", "h", "o", "n">>
Python3 == Python \o <<"3">>
Dollar == <<TAB, "$", SP>>
Continuation == <<SP, BSL>>
\* '\n.. code-block:: none\n\n'
BlockPrefix ==
    <<NL, ".", ".", SP, "c", "o", "d", "e", HY, "b", "l", "o", "c", "k", ":",
      ":", SP, "n", "o", "n", "e", NL, NL>>

\* a str argument and a list argument of script_name
Str(v) == [list |-> FALSE, val |-> v]
List(v) == [list |-> TRUE, val |-> v]

\* the command lines the model is called with: a short and an overlong
\* single string, a list of one part and a list of three parts
Commands ==
    { Str(<<"a", "b">>),
      Str(Rep("a", DefaultWidth)),
      List(<< <<"a", "b">> >>),
      List(<< <<"a">>, <<"b", "b", "b", "b">>, <<"a", "b">> >>) }

\* the text a command writes: nothing, a line followed by a blank line, and
\* a last line without a newline
Outputs ==
    { <<>>,
      <<"a", "b", NL, NL>>,
      <<"a", SP, "a", NL, "a", "b", "b", "b">> }

\* the line-cleanup callables the model passes: each replaces one character
CleanupNames == {"a2b", "b2nl"}

\* cleanup(input_file, line)
ApplyCleanup(cleanup, line) ==
    [i \in 1..Len(line) |->
        IF cleanup = "a2b" /\ line[i] = "a" THEN "b"
        ELSE IF cleanup = "b2nl" /\ line[i] = "b" THEN NL
        ELSE line[i]]

RECURSIVE ApplyCleanupsReversed(_, _)
\* ApplyCleanups running the list from its end
ApplyCleanupsReversed(line_cleanups, line) ==
    IF line_cleanups = <<>> THEN line
    ELSE ApplyCleanup(Head(line_cleanups),
                      ApplyCleanupsReversed(Tail(line_cleanups), line))

RECURSIVE ApplyCleanups(_, _)
\* for cleanup in line_cleanups: line = cleanup(input_file, line)
ApplyCleanups(line_cleanups, line) ==
    IF line_cleanups = <<>> THEN line
    ELSE ApplyCleanups(Tail(line_cleanups),
                       ApplyCleanup(Head(line_cleanups), line))

\* the lists of distinct cleanups of length at most MaxCleanups
CleanupLists ==
    UNION { { f \in [1..n -> CleanupNames] :
                \A i, j \in 1..n : i # j => f[i] # f[j] } :
            n \in 0..MaxCleanups }

Interpreters == {<<>>, Python}
ModeNames == BreakModes \cup {"bogus"}

Arguments ==
    [ script_name : Commands,
      interpreter : Interpreters,
      include_prefix : BOOLEAN,
      ignore_error : BOOLEAN,
      trailing_newlines : BOOLEAN,
      break_lines_at : 0..MaxWidth,
      line_break_mode : ModeNames,
      adjust_python_for_version : BOOLEAN,
      line_cleanups : CleanupLists ]

VARIABLES
    args,         \* the arguments of the call
    pc,           \* where the call is
    interpreter,  \* the local of that name, after the version shim
    cmd,          \* the command line handed to sh()
    runs,         \* the executions so far: command, exit status, text
    caught,       \* the exception the except clause holds
    output_text,  \* the text captured from the last execution
    lines,        \* the result list being built
    broken_lines, \* adjust_line_widths called directly: its result list
    result,       \* what the call gives its caller
    trace         \* the prints and sh() calls so far, in order

vars == <<args, pc, interpreter, cmd, runs, caught, output_text, lines,
          broken_lines, result, trace>>

\* an exception: its type, its argument, and the sh() call (1, 2) that
\* raised it, 0 when it does not come from sh()
NoException == [type |-> "none", arg |-> "", call |-> 0]
BuildFailure(n) ==
    [type |-> "BuildFailure", arg |-> "Subprocess return code", call |-> n]
Exception(t, a) == [type |-> t, arg |-> a, call |-> 0]

Pending == [kind |-> "pending", text |-> <<>>, exc |-> NoException]
\* return response
Return(text) == [kind |-> "return", text |-> text, exc |-> NoException]
\* an exception leaves run_script
Raise(e) == [kind |-> "raise", text |-> <<>>, exc |-> e]

Init ==
    /\ args \in Arguments
    /\ pc = "start"
    /\ interpreter = <<>>
    /\ cmd = <<>>
    /\ runs = <<>>
    /\ caught = NoException
    /\ output_text = <<>>
    /\ lines = <<>>
    /\ broken_lines = <<>>
    /\ result = Pending
    /\ trace = <<>>

\* interpreter after the shim of lines 408-413
ShimInterpreter(a) ==
    IF /\ a.adjust_python_for_version
       /\ a.interpreter = Python
       /\ PyMajor = 3
    THEN Python3 ELSE a.interpreter

\* script_name after lines 414-417
ScriptString(a) ==
    IF a.script_name.list THEN Join(<<SP>>, a.script_name.val)
    ELSE a.script_name.val

\* cmd of lines 418-424
CommandString(interp, script) ==
    IF interp # <<>> THEN interp \o <<SP>> \o script ELSE script

\* lines 407-428
Start ==
    /\ pc = "start"
    /\ interpreter' = ShimInterpreter(args)
    /\ cmd' = CommandString(ShimInterpreter(args), ScriptString(args))
    /\ pc' = "try"
    /\ UNCHANGED <<args, runs, caught, output_text, lines, broken_lines,
                   result, trace>>

\* ShRaises forgetting ignore_error
ShRaisesAlways(st, ignore_error) == st # 0

\* paver's sh(real_cmd, capture=True, ignore_error=...): the command ends
\* with exit status st having written out; a nonzero status raises
\* BuildFailure unless ignore_error
ShRaises(st, ignore_error) == st # 0 /\ ~ignore_error

\* lines 429-432
Execute ==
    /\ pc = "try"
    /\ \E st \in {0, 1}, out \in Outputs :
        /\ runs' = Append(runs, [cmd |-> cmd, status |-> st, out |-> out])
        /\ IF ShRaises(st, args.ignore_error)
           THEN /\ caught' = BuildFailure(1)
                /\ pc' = "except"
                /\ trace' = trace \o <<"print()", "sh(ignore_error=arg)">>
                /\ UNCHANGED output_text
           ELSE /\ output_text' = out
                /\ pc' = "command"
                /\ trace' = trace \o <<"print()", "sh(ignore_error=arg)",
                                       "print(output_text)">>
                /\ UNCHANGED caught
    /\ UNCHANGED <<args, interpreter, cmd, lines, broken_lines, result>>

\* lines 433-436
Banner ==
    /\ pc = "except"
    /\ trace' = trace \o <<"print(stars)", "print(ERROR)", "print(stars)">>
    /\ pc' = "retry"
    /\ UNCHANGED <<args, interpreter, cmd, runs, caught, output_text,
                   lines, broken_lines, result>>

\* lines 437-438; an exception raised here leaves run_script
Retry ==
    /\ pc = "retry"
    /\ \E st \in {0, 1}, out \in Outputs :
        /\ runs' = Append(runs, [cmd |-> cmd, status |-> st, out |-> out])
        /\ IF ShRaises(st, TRUE)
           THEN /\ result' = Raise(BuildFailure(2))
                /\ pc' = "done"
                /\ trace' = Append(trace, "sh(ignore_error=True)")
                /\ UNCHANGED output_text
           ELSE /\ output_text' = out
                /\ pc' = "closing"
                /\ trace' = trace \o <<"sh(ignore_error=True)",
                                       "print(output_text)">>
                /\ UNCHANGED result
    /\ UNCHANGED <<args, interpreter, cmd, caught, lines, broken_lines>>

\* Closing without the raise
ClosingSwallows ==
    /\ pc = "closing"
    /\ trace' = Append(trace, "print(stars)")
    /\ pc' = "command"
    /\ UNCHANGED <<args, interpreter, cmd, runs, caught, output_text,
                   lines, broken_lines, result>>

\* lines 439-441
Closing ==
    /\ pc = "closing"
    /\ trace' = Append(trace, "print(stars)")
    /\ IF ~args.ignore_error
       THEN /\ result' = Raise(caught)
            /\ pc' = "done"
       ELSE /\ pc' = "command"
            /\ UNCHANGED result
    /\ UNCHANGED <<args, interpreter, cmd, runs, caught, output_text,
                   lines, broken_lines>>

RECURSIVE WithContinuation(_)
\* l + ' \\' for l in parts
WithContinuation(parts) ==
    IF parts = <<>> THEN <<>>
    ELSE <<Head(parts) \o Continuation>> \o WithContinuation(Tail(parts))

\* lines 455-463, for a non-empty cmd_list
FragmentLines(interp, cmd_list) ==
    << (IF interp # <<>>
        THEN Dollar \o interp \o <<SP>> \o cmd_list[1] \o Continuation
        ELSE Dollar \o cmd_list[1] \o Continuation) >>
    \o WithContinuation(SubSeq(cmd_list, 2, Len(cmd_list) - 1))
    \o <<cmd_list[Len(cmd_list)]>>

\* CommandLine with another default width
CommandLineNarrow(c, line_cleanups, break_lines_at) ==
    adjust_line_widths(
        <<ApplyCleanups(line_cleanups, Dollar \o c)>>,
        IF break_lines_at # 0 THEN break_lines_at - 1 ELSE DefaultWidth - 1,
        "continue")

\* lines 465-472
CommandLine(c, line_cleanups, break_lines_at) ==
    adjust_line_widths(
        <<ApplyCleanups(line_cleanups, Dollar \o c)>>,
        IF break_lines_at # 0 THEN break_lines_at - 1 ELSE DefaultWidth,
        "continue")

\* lines 442-473: the command we ran, as the first lines of the result
BuildCommand ==
    /\ pc = "command"
    /\ IF args.script_name.list
       THEN IF args.script_name.val = <<>>
            THEN /\ result' = Raise(Exception("IndexError", ""))
                 /\ pc' = "done"
                 /\ UNCHANGED lines
            ELSE /\ lines' = FragmentLines(interpreter, args.script_name.val)
                 /\ pc' = "output"
                 /\ UNCHANGED result
       ELSE LET r == CommandLine(cmd, args.line_cleanups,
                                 args.break_lines_at)
            IN IF r.kind = "ok"
               THEN /\ lines' = r.lines
                    /\ pc' = "output"
                    /\ UNCHANGED result
               ELSE IF r.kind = "diverge"
               THEN /\ pc' = "diverged"
                    /\ UNCHANGED <<lines, result>>
               ELSE /\ result' = Raise(Exception(r.kind, r.arg))
                    /\ pc' = "done"
                    /\ UNCHANGED lines
    /\ UNCHANGED <<args, interpreter, cmd, runs, caught, output_text,
                   broken_lines, trace>>

\* lines 475-476
AppendOutput ==
    /\ pc = "output"
    /\ lines' = lines \o << <<>> >> \o SplitLines(output_text)
    /\ pc' = "clean"
    /\ UNCHANGED <<args, interpreter, cmd, runs, caught, output_text,
                   broken_lines, result, trace>>

\* lines 478-484
CleanLines(line_cleanups, ls) ==
    [i \in 1..Len(ls) |-> ApplyCleanups(line_cleanups, ls[i])]

Clean ==
    /\ pc = "clean"
    /\ lines' = CleanLines(args.line_cleanups, lines)
    /\ pc' = "adjust"
    /\ UNCHANGED <<args, interpreter, cmd, runs, caught, output_text,
                   broken_lines, result, trace>>

\* lines 486-488
Adjust ==
    /\ pc = "adjust"
    /\ IF args.break_lines_at # 0
       THEN LET r == adjust_line_widths(lines, args.break_lines_at,
                                        args.line_break_mode)
            IN IF r.kind = "ok"
               THEN /\ lines' = r.lines
                    /\ pc' = "join"
                    /\ UNCHANGED result
               ELSE /\ result' = Raise(Exception(r.kind, r.arg))
                    /\ pc' = "done"
                    /\ UNCHANGED lines
       ELSE /\ pc' = "join"
            /\ UNCHANGED <<lines, result>>
    /\ UNCHANGED <<args, interpreter, cmd, runs, caught, output_text,
                   broken_lines, trace>>

RECURSIVE PadNewlines(_)
\* while not response.endswith('\n\n'): response += '\n'
PadNewlines(response) ==
    IF Len(response) >= 2 /\ response[Len(response)] = NL
                          /\ response[Len(response) - 1] = NL
    THEN response
    ELSE PadNewlines(Append(response, NL))

\* Normalize without the rstrip
NormalizeKeep(response, trailing_newlines) ==
    IF trailing_newlines THEN PadNewlines(response)
    ELSE Append(response, NL)

\* lines 491-496
Normalize(response, trailing_newlines) ==
    IF trailing_newlines THEN PadNewlines(response)
    ELSE Append(RStrip(response), NL)

\* lines 442-445 and 490-497
Response(a, ls) ==
    Normalize((IF a.include_prefix THEN BlockPrefix ELSE <<>>)
                  \o Join(<<NL, TAB>>, ls),
              a.trailing_newlines)

Finish ==
    /\ pc = "join"
    /\ result' = Return(Response(args, lines))
    /\ pc' = "done"
    /\ UNCHANGED <<args, interpreter, cmd, runs, caught, output_text,
                   lines, broken_lines, trace>>

Next ==
    \/ Start
    \/ Execute
    \/ Banner
    \/ Retry
    \/ Closing
    \/ BuildCommand
    \/ AppendOutput
    \/ Clean
    \/ Adjust
    \/ Finish

Spec == Init /\ [][Next]_vars

(***************************************************************************)
(* adjust_line_widths called on its own, one pass of its for loop a step   *)
(***************************************************************************)
\* the lines of the direct calls have at most MaxLineLen characters
MaxLineLen == 4
\* the widths of the direct calls are 1..MaxAdjustWidth
MaxAdjustWidth == 3

LineAlphabet == {"a", SP, TAB, HY, BSL}
Lines == UNION {[1..n -> LineAlphabet] : n \in 0..MaxLineLen}

AdjustArguments ==
    [ lines : {<<l>> : l \in Lines},
      break_lines_at : 1..MaxAdjustWidth,
      line_break_mode : ModeNames ]

InitAdjust ==
    /\ args \in AdjustArguments
    /\ pc = "for"
    /\ lines = args.lines
    /\ broken_lines = <<>>
    /\ result = Pending
    /\ interpreter = <<>>
    /\ cmd = <<>>
    /\ runs = <<>>
    /\ caught = NoException
    /\ output_text = <<>>
    /\ trace = <<>>

\* lines 272-317: the pass for the next line
AdjustIterate ==
    /\ pc = "for"
    /\ lines # <<>>
    /\ LET r == AdjustLine(Head(lines), args.break_lines_at,
                           args.line_break_mode)
       IN IF r.kind = "ok"
          THEN /\ broken_lines' = broken_lines \o r.lines
               /\ lines' = Tail(lines)
               /\ UNCHANGED <<pc, result>>
          ELSE /\ result' = Raise(Exception(r.kind, r.arg))
               /\ pc' = "done"
               /\ UNCHANGED <<lines, broken_lines>>
    /\ UNCHANGED <<args, interpreter, cmd, runs, caught, output_text, trace>>

\* line 319
AdjustReturn ==
    /\ pc = "for"
    /\ lines = <<>>
    /\ result' = Return(broken_lines)
    /\ pc' = "done"
    /\ UNCHANGED <<args, interpreter, cmd, runs, caught, output_text, lines,
                   broken_lines, trace>>

NextAdjust ==
    \/ AdjustIterate
    \/ AdjustReturn

SpecAdjust == InitAdjust /\ [][NextAdjust]_vars

(***************************************************************************)
(* Properties                                                              *)
(***************************************************************************)
CeilDiv(a, b) == (a + b - 1) \div b

\* the i-th piece of l cut every W characters
Piece(l, i, W) == SubSeq(l, (i - 1) * W + 1, Min(i * W, Len(l)))

\* l cut every W characters, every piece but the last followed by a
\* backslash when marked
Pieces(l, W, marked) ==
    [i \in 1..CeilDiv(Len(l), W) |->
        IF marked /\ i < CeilDiv(Len(l), W)
        THEN Append(Piece(l, i, W), BSL) ELSE Piece(l, i, W)]

RECURSIVE CleanInOrder(_, _)
\* the cleanups of the list applied to line, the first of the list first
CleanInOrder(cleanups, line) ==
    IF cleanups = <<>> THEN line
    ELSE ApplyCleanup(cleanups[Len(cleanups)],
                      CleanInOrder(SubSeq(cleanups, 1, Len(cleanups) - 1),
                                   line))

\* number of newline characters that end s
RECURSIVE TrailingNewlines(_)
TrailingNewlines(s) ==
    IF s = <<>> \/ s[Len(s)] # NL THEN 0
    ELSE 1 + TrailingNewlines(SubSeq(s, 1, Len(s) - 1))

IsPrefix(s, t) == Len(s) <= Len(t) /\ s = SubSeq(t, 1, Len(s))
NoSpaceIn(l) == \A i \in 1..Len(l) : ~IsSpace(l[i])

\* ---- adjust_line_widths called directly (SpecAdjust) ----
InLine == args.lines[1]
AdjustReturned == pc = "done" /\ result.kind = "return"

\* C4 (as claimed): for every width W > 0, every policy and every input
\* line, each line adjust_line_widths produces has length at most W, but for
\* a wrap-no-breaks line that is one unbreakable token longer than W.
C4_EveryLineWithinWidth ==
    AdjustReturned =>
        \A i \in 1..Len(result.text) :
            \/ Len(result.text[i]) <= args.break_lines_at
            \/ /\ args.line_break_mode = "wrap-no-breaks"
               /\ NoSpaceIn(result.text[i])

\* C4 (amended): a whitespace-only line passes through unchanged whatever
\* its length; of any other line each produced line has length at most W
\* under break, wrap and truncate, at most W or is one unbreakable token
\* under wrap-no-breaks, at most W + 1 under continue (W characters and the
\* backslash), and at most max(W, p + 1) under fill, p being the number of
\* leading whitespace characters of the input line.
C4_WidthBoundPerPolicy ==
    AdjustReturned =>
        \A i \in 1..Len(result.text) :
            LET o == result.text[i]
                W == args.break_lines_at
                mode == args.line_break_mode
            IN IF IsBlank(InLine) THEN o = InLine
               ELSE IF mode = "continue"
                   THEN /\ Len(o) <= W + 1
                        /\ Len(o) = W + 1 => o[W + 1] = BSL
               ELSE IF mode = "fill"
                   THEN Len(o) <= Max(W, LeadingSpace(InLine) + 1)
               ELSE IF mode = "wrap-no-breaks"
                   THEN Len(o) <= W \/ NoSpaceIn(o)
               ELSE Len(o) <= W

\* C4 witness: a line longer than W was broken into several lines
C4_Witness ==
    /\ AdjustReturned
    /\ args.line_break_mode = "break"
    /\ ~IsBlank(InLine)
    /\ Len(InLine) > 2 * args.break_lines_at
    /\ Len(result.text) >= 3

\* C9 (as claimed): under break and continue a line of length L becomes
\* exactly ceil(L / W) chunks that concatenate to the line, every chunk but
\* the last ending with a backslash under continue.
C9_ChunkCount ==
    (AdjustReturned /\ args.line_break_mode \in {"break", "continue"}) =>
        result.text = Pieces(InLine, args.break_lines_at,
                             args.line_break_mode = "continue")

\* C9 (amended): under break and continue a line of length L that is not
\* whitespace-only becomes exactly ceil(L / W) chunks, the i-th holding
\* characters (i-1)W+1 .. min(iW, L) of the line, every chunk but the last
\* followed by a backslash under continue and the last by none; a
\* whitespace-only (or empty) line stays one unchanged line.
C9_ChunkCountNonBlank ==
    (AdjustReturned /\ args.line_break_mode \in {"break", "continue"}) =>
        IF IsBlank(InLine) THEN result.text = <<InLine>>
        ELSE /\ Len(result.text) = CeilDiv(Len(InLine), args.break_lines_at)
             /\ result.text = Pieces(InLine, args.break_lines_at,
                                     args.line_break_mode = "continue")

\* C9 witness: continue cut a line into three chunks or more
C9_Witness ==
    /\ AdjustReturned
    /\ args.line_break_mode = "continue"
    /\ ~IsBlank(InLine)
    /\ Len(result.text) >= 3
    /\ result.text[1][Len(result.text[1])] = BSL

\* ---- run_script (Spec) ----
\* run_script has returned its text
Rendered == pc = "done" /\ result.kind = "return"

BadMode == args.line_break_mode \notin BreakModes
\* C1: with an unrecognized break policy run_script executes no process
\* and returns no rendered text, whatever the command, the output and the
\* width.  The only test of the policy name is the else branch of
\* adjust_line_widths, reached after sh() has run and only for a line that
\* is neither blank nor within the width.
C1_FailsBeforeExecution ==
    BadMode => (runs = <<>> /\ result.kind # "return")

FailedFirst ==
    ~args.ignore_error /\ runs # <<>> /\ runs[1].status # 0

FailureTrace ==
    <<"print()", "sh(ignore_error=arg)",
      "print(stars)", "print(ERROR)", "print(stars)",
      "sh(ignore_error=True)", "print(output_text)",
      "print(stars)">>

\* C2: when the first execution fails and ignore_error is false, run_script
\* prints the error banner, executes the same command once more with
\* failure ignored, prints the closing banner and raises the exception of
\* the first execution; it executes the command exactly twice and returns
\* no text.
C2_RetryThenRaiseOriginal ==
    FailedFirst =>
        /\ pc \in {"except", "retry", "closing", "done"}
        /\ result.kind # "return"
        /\ IsPrefix(trace, FailureTrace)
        /\ Len(runs) <= 2
        /\ Len(runs) = 2 => runs[2].cmd = runs[1].cmd
        /\ pc = "done" =>
              /\ trace = FailureTrace
              /\ Len(runs) = 2
              /\ result = Raise(BuildFailure(1))

\* C2 witness: the original failure was raised after a retry that failed too
C2_Witness ==
    /\ FailedFirst
    /\ pc = "done"
    /\ result.kind = "raise"
    /\ Len(runs) = 2
    /\ runs[2].status # 0

\* C3: with ignore_error true no execution failure surfaces: the command is
\* executed once, no exception of sh() is caught or raised whatever the exit
\* status, and the lines that follow the blank separator are the lines of
\* the text captured from that execution.
C3_IgnoredFailureRenders ==
    args.ignore_error =>
        /\ caught = NoException
        /\ result.exc.type # "BuildFailure"
        /\ Len(runs) <= 1
        /\ pc \notin {"except", "retry", "closing"}
        /\ pc \in {"command", "output", "clean"} => output_text = runs[1].out
        /\ pc = "clean" =>
              LET n == Len(SplitLines(runs[1].out))
              IN /\ Len(lines) > n
                 /\ lines[Len(lines) - n] = <<>>
                 /\ SubSeq(lines, Len(lines) - n + 1, Len(lines))
                        = SplitLines(runs[1].out)
        /\ (pc = "done" /\ result.kind = "raise") =>
              result.exc.type = "ValueError"

\* C3 witness: a failed command's output was rendered and returned
C3_Witness ==
    /\ args.ignore_error
    /\ runs # <<>>
    /\ runs[1].status # 0
    /\ runs[1].out # <<>>
    /\ pc = "done"
    /\ result.kind = "return"

\* the display lines of a fragment sequence, one per fragment
OnePerFragment(interp, parts) ==
    [i \in 1..Len(parts) |->
        (IF i = 1
         THEN Dollar \o (IF interp # <<>> THEN interp \o <<SP>> ELSE <<>>)
         ELSE <<>>)
        \o parts[i]
        \o (IF i < Len(parts) THEN Continuation ELSE <<>>)]

\* the display line of a single-string command, kept whole
WholeCommandLine == CleanInOrder(args.line_cleanups, Dollar \o cmd)

\* the lines before cleanup when the command line is displayed as display
RawLines(display) == display \o << <<>> >> \o SplitLines(output_text)

CleanedLines(raw) ==
    [i \in 1..Len(raw) |-> CleanInOrder(args.line_cleanups, raw[i])]

\* C5 (as claimed): with max width 0 the rendered lines are the display
\* command line(s), the blank separator and the cleaned output lines, each
\* kept whole, for a single string as for a fragment sequence.
C5_WidthZeroKeepsLinesWhole ==
    (args.break_lines_at = 0 /\ pc = "join") =>
        lines = CleanedLines(RawLines(
                    IF args.script_name.list
                    THEN FragmentLines(interpreter, args.script_name.val)
                    ELSE <<WholeCommandLine>>))

\* C5 (amended): with max width 0 the rendered lines are the display
\* command line(s), the blank separator and the cleaned output lines, and
\* no fragment line and no output line is split whatever its length; the
\* line of a single-string command is kept whole up to DefaultWidth (64)
\* characters and beyond that is cut every 64 characters, every piece but
\* the last followed by a continuation backslash.
C5_WidthZeroBreaksOnlyCommandLine ==
    (args.break_lines_at = 0 /\ (pc = "join" \/ Rendered)) =>
          lines = CleanedLines(RawLines(
                    IF args.script_name.list
                    THEN FragmentLines(interpreter, args.script_name.val)
                    ELSE IF Len(WholeCommandLine) <= DefaultWidth
                    THEN <<WholeCommandLine>>
                    ELSE Pieces(WholeCommandLine, DefaultWidth, TRUE)))

\* C5 witness: width 0, an overlong single-string command and some output
C5_Witness ==
    /\ args.break_lines_at = 0
    /\ ~args.script_name.list
    /\ Len(cmd) > DefaultWidth
    /\ pc = "done"
    /\ result.kind = "return"
    /\ Len(lines) >= 5

\* C6 (as claimed): a sequence of n >= 1 fragments is displayed as exactly n
\* lines, one per fragment in order: the first with the $ prefix and the
\* interpreter, every line but the last ending with a continuation
\* backslash, the last without one.
C6_OneLinePerFragment ==
    (args.script_name.list /\ pc = "output") =>
        lines = OnePerFragment(interpreter, args.script_name.val)

\* C7 (as claimed): every display line built from a fragment appears whole
\* (cleaned) among the rendered lines, for every width and policy.
C7_FragmentsNeverSplit ==
    (args.script_name.list /\ pc = "join") =>
        \A d \in 1..Len(FragmentLines(interpreter, args.script_name.val)) :
            \E i \in 1..Len(lines) :
                lines[i] = CleanInOrder(args.line_cleanups,
                    FragmentLines(interpreter, args.script_name.val)[d])

\* the result ends with one newline and no whitespace before it
EndsWithOneNewline(t) ==
    /\ TrailingNewlines(t) = 1
    /\ Len(t) >= 2 => ~IsSpace(t[Len(t) - 1])

\* C8 (as claimed): a result with trailing newlines requested ends with
\* exactly two newline characters; one with it disabled ends with exactly
\* one newline and no whitespace before it.
C8_ExactlyTwoNewlines ==
    Rendered =>
        IF args.trailing_newlines THEN TrailingNewlines(result.text) = 2
        ELSE EndsWithOneNewline(result.text)

\* C8 (amended): with trailing newlines requested the result ends with
\* exactly max(2, k) newline characters, k being the number of newline
\* characters that end the last line after cleanup and width adjustment (0
\* unless a cleanup put them there); with it disabled the result ends with
\* exactly one newline and no whitespace before it.
C8_NewlinesPaddedToTwo ==
    Rendered =>
        IF args.trailing_newlines
        THEN TrailingNewlines(result.text)
                 = Max(2, TrailingNewlines(lines[Len(lines)]))
        ELSE EndsWithOneNewline(result.text)

\* C8 witness: output ending in a blank line, rendered without padding
C8_Witness ==
    /\ Rendered
    /\ ~args.trailing_newlines
    /\ output_text # <<>>
    /\ lines[Len(lines)] = <<>>

\* the lines of the result list before cleanup
BuiltLines ==
    RawLines(IF args.script_name.list
             THEN FragmentLines(interpreter, args.script_name.val)
             ELSE CommandLine(cmd, args.line_cleanups,
                              args.break_lines_at).lines)

\* C10: every cleanup is applied, in list order, to every line of the
\* result list (command lines, blank separator, output lines), and the
\* break policy works on the cleaned lines.
C10_CleanupsInOrderBeforePolicy ==
    /\ pc = "adjust" => lines = CleanedLines(BuiltLines)
    /\ pc = "join" =>
          lines = IF args.break_lines_at = 0 THEN CleanedLines(BuiltLines)
                  ELSE adjust_line_widths(CleanedLines(BuiltLines),
                                          args.break_lines_at,
                                          args.line_break_mode).lines

\* C10 witness: two cleanups whose order matters, then a policy that cut
C10_Witness ==
    /\ pc = "join"
    /\ args.line_cleanups = <<"a2b", "b2nl">>
    /\ args.break_lines_at > 0
    /\ args.line_break_mode = "wrap"
    /\ Len(lines) > Len(BuiltLines)

====
